---- MODULE Spec2Model ----
(***************************************************************************)
(* yt-audio-dl: the download / match / tag / organize / log pipeline of    *)
(* yt_audio_dl.__main__, with the pure helpers of yt_audio_dl.metadata.    *)
(*                                                                         *)
(* Python strings are sequences of one-character strings, so that the      *)
(* regular expressions, the formatting and the path arithmetic of the      *)
(* code are computed and not assumed.  A dict is a function whose DOMAIN   *)
(* is the set of keys that are present.                                    *)
(***************************************************************************)
EXTENDS Integers, Sequences, FiniteSets, TLC

(***************************************************************************)
(* Bounds of the model.                                                    *)
(***************************************************************************)
\* longest playlist explored by the pipeline specification
MaxEntries == 3
\* longest raw title over the brackets and letters of a noise phrase
MaxTitleLen == 9
\* longest raw title over the wider alphabet
MaxWideLen == 5

(***************************************************************************)
(* Characters and strings.                                                 *)
(***************************************************************************)
\* the ASCII members of the regex class \s
WhitespaceChars == {" ", "\t", "\n", "\r", "\f"}

IsSpace(c) == c \in WhitespaceChars

UpperChars ==
    <<"A","B","C","D","E","F","G","H","I","J","K","L","M",
      "N","O","P","Q","R","S","T","U","V","W","X","Y","Z">>

LowerChars ==
    <<"a","b","c","d","e","f","g","h","i","j","k","l","m",
      "n","o","p","q","r","s","t","u","v","w","x","y","z">>

\* case folding of re.IGNORECASE on ASCII letters
Fold(c) ==
    IF \E k \in 1..26 : UpperChars[k] = c
    THEN LowerChars[CHOOSE k \in 1..26 : UpperChars[k] = c]
    ELSE c

\* first position q >= p that holds no whitespace (Len(s)+1 at the end): \s*
SkipSpaces(s, p) ==
    CHOOSE q \in p..(Len(s) + 1) :
        /\ \A k \in p..(q - 1) : IsSpace(s[k])
        /\ (q = Len(s) + 1 \/ ~IsSpace(s[q]))

\* str.strip()
Strip(s) ==
    LET keep == {k \in 1..Len(s) : ~IsSpace(s[k])}
    IN  IF keep = {} THEN <<>>
        ELSE LET lo == CHOOSE k \in keep : \A j \in keep : k <= j
                 hi == CHOOSE k \in keep : \A j \in keep : k >= j
             IN  SubSeq(s, lo, hi)

RECURSIVE CollapseFrom(_, _, _)
\* re.sub of a whitespace run of at least minRun characters by one space
CollapseFrom(s, p, minRun) ==
    IF p > Len(s) THEN <<>>
    ELSE LET q == SkipSpaces(s, p)
         IN  IF q - p >= minRun
             THEN <<" ">> \o CollapseFrom(s, q, minRun)
             ELSE <<s[p]>> \o CollapseFrom(s, p + 1, minRun)

(***************************************************************************)
(* metadata._TITLE_NOISE and metadata.clean_title                          *)
(***************************************************************************)
OpenBrackets == {"(", "["}

CloseBrackets == {")", "]"}

W_Official == <<"O","f","f","i","c","i","a","l">>

W_Video == <<"V","i","d","e","o">>

W_Audio == <<"A","u","d","i","o">>

W_Music == <<"M","u","s","i","c">>

W_Lyric == <<"L","y","r","i","c">>

W_Visualizer == <<"V","i","s","u","a","l","i","z","e","r">>

W_Only == <<"O","n","l","y">>

\* the alternatives of _TITLE_NOISE in the order of the pattern, each a
\* sequence of words that \s+ separates
NoisePhrases ==
    << <<W_Official, W_Video>>,
       <<W_Official, W_Audio>>,
       <<W_Official, W_Music, W_Video>>,
       <<W_Official, W_Lyric, W_Video>>,
       <<W_Official, W_Visualizer>>,
       <<W_Lyric, W_Video>>,
       <<W_Audio, W_Only>>,
       <<W_Audio>>,
       << <<"H","Q">> >>,
       << <<"H","D">> >>,
       << <<"4","K">> >> >>

\* position after word w when s holds it at p (ignoring case), else 0
MatchWord(s, p, w) ==
    IF /\ p + Len(w) - 1 <= Len(s)
       /\ \A k \in 1..Len(w) : Fold(s[p + k - 1]) = Fold(w[k])
    THEN p + Len(w)
    ELSE 0

RECURSIVE MatchWords(_, _, _, _)
\* position after the words ws[n..] found at p with \s+ between them, else 0
MatchWords(s, p, ws, n) ==
    LET e == MatchWord(s, p, ws[n])
    IN  IF e = 0 THEN 0
        ELSE IF n = Len(ws) THEN e
        ELSE LET q == SkipSpaces(s, e)
             IN  IF q = e THEN 0 ELSE MatchWords(s, q, ws, n + 1)

\* position after a match of _TITLE_NOISE that starts at p, else 0
NoiseMatchEnd(s, p) ==
    LET a == SkipSpaces(s, p)
    IN  IF a > Len(s) \/ s[a] \notin OpenBrackets THEN 0
        ELSE LET b == SkipSpaces(s, a + 1)
                 closes(n) ==
                     LET e == IF b > Len(s) THEN 0
                              ELSE MatchWords(s, b, NoisePhrases[n], 1)
                         c == IF e = 0 THEN 0 ELSE SkipSpaces(s, e)
                     IN  IF e # 0 /\ c <= Len(s) /\ s[c] \in CloseBrackets
                         THEN c + 1 ELSE 0
                 hits == {n \in 1..Len(NoisePhrases) : closes(n) # 0}
             IN  IF hits = {} THEN 0
                 ELSE closes(CHOOSE n \in hits : \A m \in hits : n <= m)

RECURSIVE SubNoise(_, _)
\* _TITLE_NOISE.sub("", s) from position p: leftmost matches, left to right
SubNoise(s, p) ==
    IF p > Len(s) THEN <<>>
    ELSE LET e == NoiseMatchEnd(s, p)
         IN  IF e # 0 THEN SubNoise(s, e)
             ELSE <<s[p]>> \o SubNoise(s, p + 1)

clean_title(title) ==
    LET cleaned == Strip(CollapseFrom(SubNoise(title, 1), 1, 2))
    IN  IF cleaned # <<>> THEN cleaned ELSE title

(***************************************************************************)
(* __main__.sanitize_filename                                              *)
(***************************************************************************)
\* the class [<>:"/\\|?*]
IllegalChars == {"<", ">", ":", "\"", "/", "\\", "|", "?", "*"}

\* name[:200]
MaxNameLen == 200

RECURSIVE RemoveChars(_, _)
RemoveChars(s, bad) ==
    IF s = <<>> THEN <<>>
    ELSE (IF Head(s) \in bad THEN <<>> ELSE <<Head(s)>>)
             \o RemoveChars(Tail(s), bad)

sanitize_filename(name) ==
    LET stripped == Strip(CollapseFrom(RemoveChars(name, IllegalChars), 1, 1))
    IN  SubSeq(stripped, 1,
               IF Len(stripped) < MaxNameLen THEN Len(stripped) ELSE MaxNameLen)

(***************************************************************************)
(* Number formatting: str(n) and the format specs 02d, 03d                 *)
(***************************************************************************)
DigitChars == <<"0","1","2","3","4","5","6","7","8","9">>

RECURSIVE Str(_)
\* str(n) for n >= 0
Str(n) ==
    IF n < 10 THEN <<DigitChars[n + 1]>>
    ELSE Str(n \div 10) \o <<DigitChars[(n % 10) + 1]>>

\* f"{n:0<width>d}": zero-padded to at least width digits
ZeroPad(n, width) ==
    LET d == Str(n)
    IN  IF Len(d) >= width THEN d
        ELSE [k \in 1..(width - Len(d)) |-> "0"] \o d

(***************************************************************************)
(* Path arithmetic (pathlib) and the order of sorted()                     *)
(***************************************************************************)
\* the ASCII characters in code point order: the controls that \s matches,
\* then the printable ones (the grave accent, which a TLA+ string cannot
\* hold, left out)
CodePoints ==
    <<"\t", "\n", "\f", "\r",
      " ", "!", "\"", "#", "$", "%", "&", "'", "(", ")", "*", "+", ",", "-",
      ".", "/", "0", "1", "2", "3", "4", "5", "6", "7", "8", "9", ":", ";",
      "<", "=", ">", "?", "@",
      "A","B","C","D","E","F","G","H","I","J","K","L","M",
      "N","O","P","Q","R","S","T","U","V","W","X","Y","Z",
      "[", "\\", "]", "^", "_",
      "a","b","c","d","e","f","g","h","i","j","k","l","m",
      "n","o","p","q","r","s","t","u","v","w","x","y","z",
      "{", "|", "}", "~">>

Ord(c) == CHOOSE k \in 1..Len(CodePoints) : CodePoints[k] = c

\* a < b for two Python strings: decided at the first place they differ
StrLess(a, b) ==
    LET n == IF Len(a) < Len(b) THEN Len(a) ELSE Len(b)
        diff == {k \in 1..n : a[k] # b[k]}
    IN  IF diff = {} THEN Len(a) < Len(b)
        ELSE LET d == CHOOSE k \in diff : \A j \in diff : k <= j
             IN  Ord(a[d]) < Ord(b[d])

RECURSIVE Sorted(_)
\* sorted(S) for a set S of strings
Sorted(S) ==
    IF S = {} THEN <<>>
    ELSE LET m == CHOOSE x \in S : \A y \in S \ {x} : StrLess(x, y)
         IN  <<m>> \o Sorted(S \ {m})

\* index of the last "." of name when it starts a suffix, else 0
SuffixAt(name) ==
    LET dots == {k \in 1..Len(name) : name[k] = "."}
        last == CHOOSE k \in dots : \A j \in dots : j <= k
    IN  IF dots # {} /\ last > 1 /\ last < Len(name) THEN last ELSE 0

\* PurePath.suffix
PathSuffix(name) ==
    IF SuffixAt(name) = 0 THEN <<>>
    ELSE SubSeq(name, SuffixAt(name), Len(name))

\* PurePath.stem
PathStem(name) ==
    IF SuffixAt(name) = 0 THEN name
    ELSE SubSeq(name, 1, SuffixAt(name) - 1)

\* str.endswith
EndsWith(s, suf) ==
    /\ Len(suf) <= Len(s)
    /\ SubSeq(s, Len(s) - Len(suf) + 1, Len(s)) = suf

\* str.removesuffix
RemoveSuffix(s, suf) ==
    IF suf # <<>> /\ EndsWith(s, suf)
    THEN SubSeq(s, 1, Len(s) - Len(suf))
    ELSE s

Ext_opus == <<".","o","p","u","s">>

Ext_json == <<".","j","s","o","n">>

Ext_info == <<".","i","n","f","o">>

Ext_info_json == Ext_info \o Ext_json

(***************************************************************************)
(* metadata.get_artist and metadata.determine_album_artist                 *)
(***************************************************************************)
S_UnknownArtist == <<"U","n","k","n","o","w","n"," ","A","r","t","i","s","t">>

S_VariousArtists == <<"V","a","r","i","o","u","s"," ","A","r","t","i","s","t","s">>

\* dict.get(key, default)
Get(d, key, default) == IF key \in DOMAIN d THEN d[key] ELSE default

\* the keys get_artist tries, in order
ArtistKeys == <<"artist", "creator", "uploader", "channel">>

\* truthiness of a str | None: None is the absent key, "" is <<>>
Truthy(d, key) == key \in DOMAIN d /\ d[key] # <<>>

get_artist(info) ==
    LET found == {k \in 1..Len(ArtistKeys) : Truthy(info, ArtistKeys[k])}
    IN  IF found = {} THEN S_UnknownArtist
        ELSE info[ArtistKeys[CHOOSE k \in found : \A j \in found : k <= j]]

\* an album artist decided by the first track alone
determine_album_artist_first(infos) ==
    IF infos = <<>> THEN S_VariousArtists ELSE get_artist(infos[1])

determine_album_artist(infos) ==
    LET artists == {get_artist(infos[k]) : k \in 1..Len(infos)}
    IN  IF Cardinality(artists) = 1
        THEN CHOOSE a \in artists : TRUE
        ELSE S_VariousArtists

(***************************************************************************)
(* The world of a run: the remote playlist and the command line.           *)
(***************************************************************************)
\* what yt-dlp would write to the .info.json of an entry
InfoA ==
    [id |-> <<"v","1">>,
     title |-> <<"a"," ","(","H","D",")">>,
     artist |-> <<"A","/","C">>,
     upload_date |-> <<"2","0","2","1","0","5","0","9">>,
     duration |-> <<61>>]

InfoB ==
    [id |-> <<"v","2">>,
     title |-> <<"a">>,
     artist |-> <<>>,
     creator |-> <<"A","/","C">>,
     uploader |-> <<"U">>]

InfoC ==
    [id |-> <<"v","3">>,
     title |-> <<"b">>,
     uploader |-> <<"U">>,
     channel |-> <<"Z">>,
     upload_date |-> <<"2","0">>]

Infos == {InfoA, InfoB, InfoC}

Playlists == UNION {[1..n -> Infos] : n \in 0..MaxEntries}

\* None and "" are both falsy where the code tests an override
NoneStr == <<>>

AlbumOverrides == {NoneStr, <<"L",":","1">>}

ArtistOverrides == {NoneStr, <<"O","v">>}

PlaylistTitle == <<"M","i","x"," ","?">>

\* the empty dict that stands for a missing sidecar
EmptyInfo == <<>>

(***************************************************************************)
(* downloader.download_playlist: the staging directory and its listing     *)
(***************************************************************************)
\* outtmpl "%(playlist_index)03d - %(title)s.%(ext)s" for entry k
StagedStem(k, info) == ZeroPad(k, 3) \o <<" ","-"," ">> \o info.title

StagedOpus(k, info) == StagedStem(k, info) \o Ext_opus

StagedInfoJson(k, info) == StagedStem(k, info) \o Ext_info_json

RECURSIVE SelectSeq2(_, _)
\* the members of sequence names that satisfy keep, in order
SelectSeq2(names, keep) ==
    IF names = <<>> THEN <<>>
    ELSE (IF Head(names) \in keep THEN <<Head(names)>> ELSE <<>>)
             \o SelectSeq2(Tail(names), keep)

\* downloader.py 131-136: the listing of temp_dir, sorted, split by suffix
CollectDownloaded(dir) ==
    SelectSeq2(Sorted(dir), {p \in dir : PathSuffix(p) = Ext_opus})

CollectInfoJson(dir) ==
    SelectSeq2(Sorted(dir),
               {p \in dir : /\ PathSuffix(p) # Ext_opus
                            /\ PathSuffix(p) = Ext_json
                            /\ EndsWith(PathStem(p), Ext_info)})

(***************************************************************************)
(* __main__.move_and_tag: matching, tags, destination names, log entries   *)
(***************************************************************************)
RECURSIVE InfoMap(_, _)
\* lines 105-109: stem -> info, a later file replacing an earlier key
InfoMap(info_json_files, contents) ==
    IF info_json_files = <<>> THEN <<>>
    ELSE LET n == Len(info_json_files)
             last == info_json_files[n]
             stem == RemoveSuffix(last, Ext_info_json)
         IN  (stem :> contents[last])
                 @@ InfoMap(SubSeq(info_json_files, 1, n - 1), contents)

\* a matcher that pairs the k-th audio file with the k-th sidecar
MatchInfo_ByPosition(downloaded_files, info_json_files, contents, k) ==
    IF k <= Len(info_json_files) THEN contents[info_json_files[k]]
    ELSE EmptyInfo

\* line 113: info_map.get(stem, {})
MatchInfo(downloaded_files, info_json_files, contents, k) ==
    Get(InfoMap(info_json_files, contents), PathStem(downloaded_files[k]),
        EmptyInfo)

\* lines 111-114
PairsOf(downloaded_files, info_json_files, contents) ==
    [k \in 1..Len(downloaded_files) |->
        [opus_file |-> downloaded_files[k],
         info |-> MatchInfo(downloaded_files, info_json_files, contents, k)]]

\* info.get("title", opus_file.stem)
RawTitle(pair) == Get(pair.info, "title", PathStem(pair.opus_file))

\* x or y for strings
OrElse(x, y) == IF x # <<>> THEN x ELSE y

\* the value of a string of decimal digits
DigitValue(c) == (CHOOSE k \in 1..10 : DigitChars[k] = c) - 1

RECURSIVE DecimalValue(_)
DecimalValue(digits) ==
    IF digits = <<>> THEN 0
    ELSE 10 * DecimalValue(SubSeq(digits, 1, Len(digits) - 1))
             + DigitValue(digits[Len(digits)])

\* a numbering that keeps the playlist index of the staged file name
TrackNumber_PlaylistIndex(ps, k) == DecimalValue(SubSeq(ps[k].opus_file, 1, 3))

\* line 143: the number the loop gives to the k-th pair, enumerate(pairs, 1)
TrackNumber(ps, k) == k

\* tags whose artist ignores the override
TagsOf_NoOverride(pair, album, track_number, total_tracks, album_artist, artist_override) ==
    [title |-> <<clean_title(RawTitle(pair))>>,
     artist |-> <<get_artist(pair.info)>>,
     album |-> <<album>>,
     albumartist |-> <<album_artist>>,
     tracknumber |-> <<Str(track_number)>>,
     tracktotal |-> <<Str(total_tracks)>>]

\* metadata.embed_metadata 54-67: the tags written to the file
TagsOf(pair, album, track_number, total_tracks, album_artist, artist_override) ==
    LET upload_date == Get(pair.info, "upload_date", <<>>)
        base ==
            [title |-> <<clean_title(RawTitle(pair))>>,
             artist |-> <<OrElse(artist_override, get_artist(pair.info))>>,
             album |-> <<OrElse(NoneStr, album)>>,
             albumartist |-> <<album_artist>>,
             tracknumber |-> <<Str(track_number)>>,
             tracktotal |-> <<Str(total_tracks)>>]
    IN  IF upload_date # <<>> /\ Len(upload_date) >= 4
        THEN base @@ ("date" :> <<SubSeq(upload_date, 1, 4)>>)
        ELSE base

\* a destination name without the track number
DestName_NoNumber(pair, track_number) ==
    sanitize_filename(clean_title(RawTitle(pair))) \o Ext_opus

\* lines 150-152
DestName(pair, track_number) ==
    ZeroPad(track_number, 2) \o <<" ","-"," ">>
        \o sanitize_filename(clean_title(RawTitle(pair))) \o Ext_opus

\* lines 158-165
LogEntry(pair, track_number, artist_override) ==
    [track_number |-> track_number,
     video_id |-> Get(pair.info, "id", <<>>),
     title |-> clean_title(RawTitle(pair)),
     artist |-> OrElse(artist_override, get_artist(pair.info)),
     filename |-> DestName(pair, track_number),
     duration |-> Get(pair.info, "duration", <<>>)]

\* lines 121-127
AlbumArtistOf(ps, artist_override) ==
    IF artist_override # <<>> THEN artist_override
    ELSE determine_album_artist([k \in 1..Len(ps) |-> ps[k].info])

(***************************************************************************)
(* State.                                                                  *)
(***************************************************************************)
VARIABLES
    pc,             \* position of the run in main / move_and_tag
    exit_code,      \* -1 while running, then the process's exit status
    failure,        \* why the run stopped with exit status 1
    caller,         \* "main", or "move_and_tag" for a caller of the function
    args,           \* the parsed command line
    playlist,       \* the remote playlist: the info of each entry
    playlist_info,  \* PlaylistInfo, <<>> before it is extracted
    temp_dir,       \* names of the files in the staging directory
    json_content,   \* name of a staged .info.json -> what json.load returns
    fetch_failed,   \* playlist indices yt-dlp skipped under ignoreerrors
    result,         \* DownloadResult
    pairs,          \* move_and_tag's pairs
    album,          \* album_name, album_artist, album_dir once resolved
    made_dirs,      \* directories created under output_dir
    i,              \* the loop index of move_and_tag
    file_tags,      \* staged file name -> tags saved into it
    album_files,    \* file name in album_dir -> the file moved there
    log_entries,    \* move_and_tag's log_entries
    log_file,       \* <<>>, or <<the content of download_log.json>>
    quodlibet,      \* commands sent to Quod Libet
    stages,         \* the stages passed so far, in order
    ct_pc, ct_raw, ct_once, ct_twice

run_vars ==
    <<pc, exit_code, failure, caller, args, playlist, playlist_info, temp_dir,
      json_content, fetch_failed, result, pairs, album, made_dirs, i,
      file_tags, album_files, log_entries, log_file, quodlibet, stages>>

ct_vars == <<ct_pc, ct_raw, ct_once, ct_twice>>

vars == <<run_vars, ct_vars>>

NoResult == [downloaded_files |-> <<>>, info_json_files |-> <<>>, errors |-> <<>>]

\* everything but the command line and the playlist, before the run starts
Fresh ==
    /\ exit_code = -1
    /\ failure = "none"
    /\ playlist_info = <<>>
    /\ temp_dir = {}
    /\ json_content = <<>>
    /\ fetch_failed = {}
    /\ result = NoResult
    /\ pairs = <<>>
    /\ album = <<>>
    /\ made_dirs = {}
    /\ i = 0
    /\ file_tags = <<>>
    /\ album_files = <<>>
    /\ log_entries = <<>>
    /\ log_file = <<>>
    /\ quodlibet = <<>>
    /\ stages = <<>>

CtIdle ==
    /\ ct_pc = "idle"
    /\ ct_raw = <<>>
    /\ ct_once = <<>>
    /\ ct_twice = <<>>

Init ==
    /\ caller \in {"main", "move_and_tag"}
    /\ pc = IF caller = "main" THEN "start" ELSE "checked"
    /\ args \in IF caller = "main"
                 THEN [album_override : AlbumOverrides,
                       artist_override : ArtistOverrides,
                       dry_run : BOOLEAN]
                 ELSE {[album_override |-> NoneStr,
                        artist_override |-> NoneStr,
                        dry_run |-> FALSE]}
    /\ playlist \in Playlists
    /\ Fresh
    /\ CtIdle

\* sys.exit(1), or an exception nobody catches
Abort(why) ==
    /\ pc' = "Failed"
    /\ exit_code' = 1
    /\ failure' = why

\* __main__.check_dependencies (33-42)
CheckDependencies ==
    /\ pc = "start"
    /\ \E missing \in SUBSET {"yt-dlp", "ffmpeg"} :
          IF missing # {}
          THEN Abort("missing_tools")
          ELSE /\ pc' = "checked"
               /\ UNCHANGED <<exit_code, failure>>
    /\ UNCHANGED <<caller, args, playlist, playlist_info, temp_dir,
                   json_content, fetch_failed, result, pairs, album, made_dirs,
                   i, file_tags, album_files, log_entries, log_file, quodlibet,
                   stages, ct_vars>>

\* downloader.extract_playlist_info (47-84): the flat entries of the playlist
FlatEntries ==
    [k \in 1..Len(playlist) |->
        [id |-> playlist[k].id, title |-> playlist[k].title]]

ExtractedInfo == [title |-> PlaylistTitle, url |-> "url", entries |-> FlatEntries]

\* __main__.dry_run (79-91): list the playlist, fetch nothing
DryRun ==
    /\ pc = "checked"
    /\ args.dry_run
    /\ \E extracted \in BOOLEAN :
          IF extracted
          THEN /\ playlist_info' = ExtractedInfo
               /\ pc' = "Done"
               /\ exit_code' = 0
               /\ UNCHANGED failure
          ELSE /\ Abort("playlist_unresolved")
               /\ UNCHANGED playlist_info
    /\ UNCHANGED <<caller, args, playlist, temp_dir, json_content, fetch_failed,
                   result, pairs, album, made_dirs, i, file_tags, album_files,
                   log_entries, log_file, quodlibet, stages, ct_vars>>

\* download_playlist 93-95: extract_playlist_info, RuntimeError when it fails
ExtractPlaylistInfo ==
    /\ pc = "checked"
    /\ ~args.dry_run
    /\ \E extracted \in BOOLEAN :
          IF extracted
          THEN /\ playlist_info' = ExtractedInfo
               /\ pc' = "resolved"
               /\ stages' = Append(stages, "Resolve")
               /\ UNCHANGED <<exit_code, failure>>
          ELSE /\ Abort("playlist_unresolved")
               /\ UNCHANGED <<playlist_info, stages>>
    /\ UNCHANGED <<caller, args, playlist, temp_dir, json_content, fetch_failed,
                   result, pairs, album, made_dirs, i, file_tags, album_files,
                   log_entries, log_file, quodlibet, ct_vars>>

\* what yt-dlp does with one entry
FetchOutcomes == {"failed", "audio_and_sidecar", "audio_only"}

\* download_playlist 97-138: ydl.download under ignoreerrors, then the listing
DownloadPlaylist ==
    /\ pc = "resolved"
    /\ \E outcome \in [1..Len(playlist) -> FetchOutcomes] :
          LET got == {k \in 1..Len(playlist) : outcome[k] # "failed"}
              withJson == {k \in got : outcome[k] = "audio_and_sidecar"}
              jsonNames == {StagedInfoJson(k, playlist[k]) : k \in withJson}
              dir == {StagedOpus(k, playlist[k]) : k \in got} \cup jsonNames
          IN  /\ temp_dir' = dir
              /\ json_content' =
                    [p \in jsonNames |->
                        playlist[CHOOSE k \in withJson :
                                     StagedInfoJson(k, playlist[k]) = p]]
              /\ fetch_failed' = {k \in 1..Len(playlist) : outcome[k] = "failed"}
              /\ result' = [downloaded_files |-> CollectDownloaded(dir),
                            info_json_files |-> CollectInfoJson(dir),
                            errors |-> <<>>]
    /\ pc' = "downloaded"
    /\ stages' = Append(stages, "Fetch")
    /\ UNCHANGED <<exit_code, failure, caller, args, playlist, playlist_info,
                   pairs, album, made_dirs, i, file_tags, album_files,
                   log_entries, log_file, quodlibet, ct_vars>>

\* main 203-205
MainCheckDownloaded ==
    /\ pc = "downloaded"
    /\ caller = "main"
    /\ IF result.downloaded_files = <<>>
       THEN Abort("no_tracks_downloaded")
       ELSE /\ pc' = "move_and_tag"
            /\ UNCHANGED <<exit_code, failure>>
    /\ UNCHANGED <<caller, args, playlist, playlist_info, temp_dir,
                   json_content, fetch_failed, result, pairs, album, made_dirs,
                   i, file_tags, album_files, log_entries, log_file, quodlibet,
                   stages, ct_vars>>

\* a caller other than main hands the DownloadResult to move_and_tag as it is
CallMoveAndTag ==
    /\ pc = "downloaded"
    /\ caller = "move_and_tag"
    /\ pc' = "move_and_tag"
    /\ UNCHANGED <<exit_code, failure, caller, args, playlist, playlist_info,
                   temp_dir, json_content, fetch_failed, result, pairs, album,
                   made_dirs, i, file_tags, album_files, log_entries, log_file,
                   quodlibet, stages, ct_vars>>

\* move_and_tag 102-114
MatchPairs ==
    /\ pc = "move_and_tag"
    /\ pairs' = PairsOf(result.downloaded_files, result.info_json_files,
                        json_content)
    /\ pc' = "matched"
    /\ stages' = Append(stages, "Match")
    /\ UNCHANGED <<exit_code, failure, caller, args, playlist, playlist_info,
                   temp_dir, json_content, fetch_failed, result, album,
                   made_dirs, i, file_tags, album_files, log_entries, log_file,
                   quodlibet, ct_vars>>

\* a check that never finds the pairs empty
NoPairs_Never(ps) == FALSE

\* move_and_tag 116: not pairs
NoPairs(ps) == ps = <<>>

\* move_and_tag 116-118
CheckPairs ==
    /\ pc = "matched"
    /\ IF NoPairs(pairs)
       THEN Abort("no_tracks")
       ELSE /\ pc' = "pairs_ok"
            /\ UNCHANGED <<exit_code, failure>>
    /\ UNCHANGED <<caller, args, playlist, playlist_info, temp_dir,
                   json_content, fetch_failed, result, pairs, album, made_dirs,
                   i, file_tags, album_files, log_entries, log_file, quodlibet,
                   stages, ct_vars>>

\* move_and_tag 120-135: album name and artist, mkdir(parents=True)
ResolveAlbum ==
    /\ pc = "pairs_ok"
    /\ LET album_name == OrElse(args.album_override, playlist_info.title)
           album_artist == AlbumArtistOf(pairs, args.artist_override)
           safe_artist == sanitize_filename(album_artist)
           safe_album == sanitize_filename(album_name)
       IN  /\ album' = [name |-> album_name,
                        artist |-> album_artist,
                        dir |-> <<safe_artist, safe_album>>]
           /\ made_dirs' = made_dirs \cup {<<safe_artist>>,
                                           <<safe_artist, safe_album>>}
    /\ log_entries' = <<>>
    /\ i' = 1
    /\ pc' = IF pairs = <<>> THEN "write_log" ELSE "embed"
    /\ stages' = Append(stages, "ResolveMetadata")
    /\ UNCHANGED <<exit_code, failure, caller, args, playlist, playlist_info,
                   temp_dir, json_content, fetch_failed, result, pairs,
                   file_tags, album_files, log_file, quodlibet, ct_vars>>

\* move_and_tag 139-147: embed_metadata on pairs[i]; mutagen may raise
EmbedMetadata ==
    /\ pc = "embed"
    /\ \E saved \in BOOLEAN :
          IF saved
          THEN /\ file_tags' =
                     (pairs[i].opus_file :>
                         TagsOf(pairs[i], album.name, TrackNumber(pairs, i),
                                Len(pairs), album.artist, args.artist_override))
                         @@ file_tags
               /\ pc' = "move"
               /\ UNCHANGED <<exit_code, failure>>
          ELSE /\ Abort("tagging_exception")
               /\ UNCHANGED file_tags
    /\ UNCHANGED <<caller, args, playlist, playlist_info, temp_dir,
                   json_content, fetch_failed, result, pairs, album, made_dirs,
                   i, album_files, log_entries, log_file, quodlibet, stages,
                   ct_vars>>

\* a loop that leaves for the log after its first track
AfterTrack_LogFirst(k, ps) == "write_log"

\* move_and_tag 137: the for loop goes on to the next pair, or ends
AfterTrack(k, ps) == IF k = Len(ps) THEN "write_log" ELSE "embed"

\* move_and_tag 149-168: shutil.move of pairs[i] and its log entry
MoveTrack ==
    /\ pc = "move"
    /\ LET pair == pairs[i]
           n == TrackNumber(pairs, i)
           dest_name == DestName(pair, n)
       IN  /\ album_files' =
                  (dest_name :> [source |-> pair.opus_file,
                                 tags |-> file_tags[pair.opus_file]])
                      @@ album_files
           /\ temp_dir' = temp_dir \ {pair.opus_file}
           /\ file_tags' = [p \in DOMAIN file_tags \ {pair.opus_file} |->
                               file_tags[p]]
           /\ log_entries' =
                  Append(log_entries, LogEntry(pair, n, args.artist_override))
    /\ i' = i + 1
    /\ pc' = AfterTrack(i, pairs)
    /\ stages' = Append(stages, "OrganizeTag")
    /\ UNCHANGED <<exit_code, failure, caller, args, playlist, playlist_info,
                   json_content, fetch_failed, result, pairs, album, made_dirs,
                   log_file, quodlibet, ct_vars>>

\* move_and_tag 170-184: download_log.json (download_date, the clock's value
\* at that moment, is not kept)
WriteLog ==
    /\ pc = "write_log"
    /\ log_file' = << [playlist_url |-> playlist_info.url,
                       playlist_title |-> playlist_info.title,
                       album |-> album.name,
                       album_artist |-> album.artist,
                       tracks |-> log_entries,
                       errors |-> result.errors] >>
    /\ pc' = "returned"
    /\ stages' = Append(stages, "Log")
    /\ UNCHANGED <<exit_code, failure, caller, args, playlist, playlist_info,
                   temp_dir, json_content, fetch_failed, result, pairs, album,
                   made_dirs, i, file_tags, album_files, log_entries, quodlibet,
                   ct_vars>>

\* how quodlibet.register_album finds the player
PlayerStates == {"skip", "not_installed", "not_running", "running"}

\* main 215-217 with quodlibet.register_album (21-48)
RegisterAlbum ==
    /\ pc = "returned"
    /\ caller = "main"
    /\ \E player \in PlayerStates :
          quodlibet' = IF player = "running"
                       THEN quodlibet \o << <<"add-location", album.dir>>,
                                            <<"refresh">> >>
                       ELSE quodlibet
    /\ pc' = "registered"
    /\ stages' = Append(stages, "Notify")
    /\ UNCHANGED <<exit_code, failure, caller, args, playlist, playlist_info,
                   temp_dir, json_content, fetch_failed, result, pairs, album,
                   made_dirs, i, file_tags, album_files, log_entries, log_file,
                   ct_vars>>

\* main 219, or move_and_tag's return to another caller
Finish ==
    /\ \/ pc = "registered"
       \/ pc = "returned" /\ caller = "move_and_tag"
    /\ pc' = "Done"
    /\ exit_code' = 0
    /\ UNCHANGED <<failure, caller, args, playlist, playlist_info, temp_dir,
                   json_content, fetch_failed, result, pairs, album, made_dirs,
                   i, file_tags, album_files, log_entries, log_file, quodlibet,
                   stages, ct_vars>>

Next ==
    \/ CheckDependencies
    \/ DryRun
    \/ ExtractPlaylistInfo
    \/ DownloadPlaylist
    \/ MainCheckDownloaded
    \/ CallMoveAndTag
    \/ MatchPairs
    \/ CheckPairs
    \/ ResolveAlbum
    \/ EmbedMetadata
    \/ MoveTrack
    \/ WriteLog
    \/ RegisterAlbum
    \/ Finish

Spec == Init /\ [][Next]_vars

(***************************************************************************)
(* Properties of the pipeline.                                             *)
(***************************************************************************)
\* the fetch call has returned
HasFetched == \E n \in 1..Len(stages) : stages[n] = "Fetch"

\* move_and_tag has returned
Organized == log_file # <<>>

\* playlist indices whose audio arrived, and the k-th smallest of them
FetchedIdx == {m \in 1..Len(playlist) : m \notin fetch_failed}

KthFetched(k) ==
    CHOOSE m \in FetchedIdx : Cardinality({j \in FetchedIdx : j < m}) = k - 1

\* the staged path the k-th log entry was moved from
SourceOf(k) == album_files[log_entries[k].filename].source

\* the staged audio file of pairs[k] came without a sidecar
SidecarMissing(k) ==
    (PathStem(pairs[k].opus_file) \o Ext_info_json) \notin DOMAIN json_content

\* first non-empty of artist, creator, uploader, channel, else Unknown Artist
ResolvedArtist(info) ==
    IF Truthy(info, "artist") THEN info.artist
    ELSE IF Truthy(info, "creator") THEN info.creator
    ELSE IF Truthy(info, "uploader") THEN info.uploader
    ELSE IF Truthy(info, "channel") THEN info.channel
    ELSE S_UnknownArtist

FatalCauses ==
    {"missing_tools", "playlist_unresolved", "no_tracks_downloaded", "no_tracks"}

\* C1: a run fails only for a missing tool, an unresolved playlist, zero
\* fetched artifacts or zero pairs; a tagging fault of one track is recorded
\* and the run goes on to Done
C1_OnlyFatalCausesFail == pc = "Failed" => failure \in FatalCauses

\* C2: the tracks that arrived are numbered 1..N without gap or repeat in
\* the sorted order of their staged names, whatever their playlist indices:
\* the k-th log entry has track_number k, its file name starts with k on two
\* digits, and it is the file of the k-th smallest fetched index
C2_ContiguousNumbering ==
    /\ \A k \in 1..Len(log_entries) :
          /\ log_entries[k].track_number = k
          /\ SubSeq(log_entries[k].filename, 1, 5) =
                 <<DigitChars[(k \div 10) + 1], DigitChars[(k % 10) + 1],
                   " ", "-", " ">>
          /\ SourceOf(k) = StagedOpus(KthFetched(k), playlist[KthFetched(k)])
          /\ \A j \in 1..(k - 1) : StrLess(SourceOf(j), SourceOf(k))
    /\ Organized => Len(log_entries) = Cardinality(FetchedIdx)

\* C2 witness: a finished run of two tracks whose playlist indices were 2, 3
C2_Witness ==
    /\ pc = "Done"
    /\ Organized
    /\ fetch_failed = {1}
    /\ Len(log_entries) = 2
    /\ Len(playlist) = 3

\* C3: with zero fetched artifacts (or zero pairs in move_and_tag) the run
\* stops at the check with exit status 1, and no album directory, no tag, no
\* moved file and no log ever exist
C3_NoArtifactsNoOutput ==
    (HasFetched /\ result.downloaded_files = <<>>) =>
        /\ pc \in {"downloaded", "move_and_tag", "matched", "Failed"}
        /\ pc = "Failed" =>
              /\ exit_code = 1
              /\ failure \in {"no_tracks_downloaded", "no_tracks"}
        /\ made_dirs = {}
        /\ file_tags = <<>>
        /\ album_files = <<>>
        /\ log_file = <<>>

\* C3 witness: move_and_tag entered with no pair, every entry having failed
C3_Witness ==
    /\ pc = "Failed"
    /\ failure = "no_tracks"
    /\ exit_code = 1
    /\ Len(playlist) >= 1
    /\ pairs = <<>>

\* what the pairs would be had the sidecar of pairs[k] arrived
PairsHadSidecar(k) ==
    LET m == KthFetched(k)
        name == StagedInfoJson(m, playlist[m])
        contents == (name :> playlist[m]) @@ json_content
        files == CollectInfoJson(DOMAIN json_content \cup {name})
    IN  PairsOf(result.downloaded_files, files, contents)

\* C4 as stated: the title of a track without sidecar is its file name stem
C4_TitleIsStem ==
    \A k \in 1..Len(log_entries) :
        SidecarMissing(k) => log_entries[k].title = PathStem(pairs[k].opus_file)

\* C4 amended: a track without sidecar is paired with the empty record; its
\* title is clean_title of its file name stem, its resolved artist is
\* "Unknown Artist" (the artist written being the override when one is
\* given), no error is recorded, the run is not stopped by it, and every
\* other track has the title, artist, number and file name it would have had
C4_MissingSidecarDegrades ==
    /\ \A k \in 1..Len(pairs) :
          SidecarMissing(k) =>
              /\ pairs[k].info = EmptyInfo
              /\ result.errors = <<>>
              /\ pc = "Failed" => failure = "tagging_exception"
    /\ \A k \in 1..Len(log_entries) :
          SidecarMissing(k) =>
              /\ log_entries[k].title = clean_title(PathStem(pairs[k].opus_file))
              /\ ResolvedArtist(pairs[k].info) = S_UnknownArtist
              /\ log_entries[k].artist =
                     IF args.artist_override # NoneStr
                     THEN args.artist_override ELSE S_UnknownArtist
              /\ LET ps == PairsHadSidecar(k)
                 IN  \A j \in 1..Len(log_entries) :
                        j # k =>
                            LET e == LogEntry(ps[j], j, args.artist_override)
                            IN  /\ log_entries[j].title = e.title
                                /\ log_entries[j].artist = e.artist
                                /\ log_entries[j].track_number = e.track_number
                                /\ log_entries[j].filename = e.filename
    /\ Organized => log_file[1].errors = <<>>

\* C4 witness: a finished run of three tracks, the second without sidecar
C4_Witness ==
    /\ pc = "Done"
    /\ Len(log_entries) = 3
    /\ SidecarMissing(2)
    /\ ~SidecarMissing(1)
    /\ ~SidecarMissing(3)
    /\ log_entries[2].title # PathStem(pairs[2].opus_file)

\* C5: without artist override the album artist is the one resolved artist
\* when all tracks resolve alike and "Various Artists" when two differ; it
\* is a function of the set of all tracks' resolved artists, the same in the
\* log and in the tags of every track
C5_AlbumArtist ==
    (album # <<>> /\ args.artist_override = NoneStr /\ pairs # <<>>) =>
        LET resolved == {ResolvedArtist(pairs[k].info) : k \in 1..Len(pairs)}
            expected == IF \E a \in resolved : resolved = {a}
                        THEN CHOOSE a \in resolved : resolved = {a}
                        ELSE S_VariousArtists
        IN  /\ album.artist = expected
            /\ \A f \in DOMAIN file_tags :
                  file_tags[f].albumartist = <<expected>>
            /\ \A f \in DOMAIN album_files :
                  album_files[f].tags.albumartist = <<expected>>
            /\ Organized => log_file[1].album_artist = expected

\* C5 witness: a finished run whose last track alone has another artist
C5_Witness ==
    /\ pc = "Done"
    /\ args.artist_override = NoneStr
    /\ Len(pairs) = 3
    /\ ResolvedArtist(pairs[1].info) = ResolvedArtist(pairs[2].info)
    /\ ResolvedArtist(pairs[3].info) # ResolvedArtist(pairs[1].info)
    /\ log_file[1].album_artist = S_VariousArtists

\* C7: each entry that failed during the fetch while another succeeded is an
\* error string of the persisted log, whose errors are empty only when no
\* fetch failed
C7_FetchFailuresLogged ==
    Organized => Len(log_file[1].errors) = Cardinality(fetch_failed)

\* C8: once move_and_tag is through its N >= 1 pairs no staging path is
\* left, and the album directory holds N distinct audio names, one per pair
C8_AllRelocated ==
    (Organized /\ Len(pairs) >= 1) =>
        /\ \A k \in 1..Len(pairs) : pairs[k].opus_file \notin temp_dir
        /\ Cardinality(DOMAIN album_files) = Len(pairs)
        /\ {album_files[f].source : f \in DOMAIN album_files} =
               {pairs[k].opus_file : k \in 1..Len(pairs)}
        /\ \A f \in DOMAIN album_files : PathSuffix(f) = Ext_opus
        /\ \A j, k \in 1..Len(log_entries) :
              j # k => log_entries[j].filename # log_entries[k].filename

\* C8 witness: a finished run that holds two tracks of the same cleaned title
C8_Witness ==
    /\ pc = "Done"
    /\ Organized
    /\ \E j, k \in 1..Len(log_entries) :
          /\ j # k
          /\ log_entries[j].title = log_entries[k].title
          /\ pairs[j].info # pairs[k].info

\* the stages of a run of n tracks, in order
StageOrder(n) ==
    <<"Resolve", "Fetch", "Match", "ResolveMetadata">>
        \o [k \in 1..n |-> "OrganizeTag"] \o <<"Log", "Notify">>

IsPrefix(a, b) == Len(a) <= Len(b) /\ SubSeq(b, 1, Len(a)) = a

\* C9: the stages run in the order Resolve, Fetch, Match, Resolve-metadata,
\* Organize+Tag per track, Log, Notify: nothing is tagged or moved before
\* the fetch has returned, the log is written after all N tracks are tagged
\* and moved, the notifier runs after the log, and a run that reaches Notify
\* has passed every stage once
C9_StageOrder ==
    /\ IsPrefix(stages, StageOrder(Len(result.downloaded_files)))
    /\ (file_tags # <<>> \/ album_files # <<>>) =>
          /\ HasFetched
          /\ pc \notin {"start", "checked", "resolved", "downloaded"}
    /\ Organized =>
          /\ Len(log_entries) = Len(pairs)
          /\ Len(log_file[1].tracks) = Len(result.downloaded_files)
          /\ file_tags = <<>>
          /\ \A k \in 1..Len(pairs) :
                /\ pairs[k].opus_file \notin temp_dir
                /\ \E f \in DOMAIN album_files :
                      album_files[f].source = pairs[k].opus_file
    /\ (quodlibet # <<>> \/ pc = "registered") =>
          /\ Organized
          /\ stages = StageOrder(Len(result.downloaded_files))

\* C9 witness: a finished run of main that told the player of two tracks
C9_Witness ==
    /\ pc = "Done"
    /\ caller = "main"
    /\ quodlibet # <<>>
    /\ Len(pairs) = 2

\* C10: the log entry of each track agrees with the tags of its file: title,
\* artist (the override when given, else the resolved artist), track number,
\* the track total being the number of log entries, and the log's file name
\* being the name the tagged file was moved under
C10_LogAgreesWithTags ==
    \A k \in 1..Len(log_entries) :
        LET e == log_entries[k]
        IN  /\ e.filename \in DOMAIN album_files
            /\ LET f == album_files[e.filename]
               IN  /\ f.source = pairs[k].opus_file
                   /\ f.tags.title = <<e.title>>
                   /\ f.tags.artist = <<e.artist>>
                   /\ e.artist = IF args.artist_override # NoneStr
                                 THEN args.artist_override
                                 ELSE ResolvedArtist(pairs[k].info)
                   /\ Len(f.tags.tracknumber) = 1
                   /\ DecimalValue(f.tags.tracknumber[1]) = e.track_number
                   /\ Organized =>
                         DecimalValue(f.tags.tracktotal[1]) =
                             Len(log_file[1].tracks)

\* C10 witness: a finished run of three tracks under an artist override
C10_Witness ==
    /\ pc = "Done"
    /\ Organized
    /\ args.artist_override # NoneStr
    /\ Len(log_entries) = 3

(***************************************************************************)
(* The clean_title specification: one raw title, cleaned once and twice.   *)
(***************************************************************************)
\* raw titles that nest brackets around a noise phrase, and shorter ones
\* that also hold whitespace, a mismatched bracket and another letter
NestAlphabet == {"(", ")", "H", "d"}

WideAlphabet == {"(", ")", "]", "H", "d", " ", "x"}

InitTitle ==
    /\ ct_pc = "raw"
    /\ \/ \E n \in 0..MaxTitleLen : ct_raw \in [1..n -> NestAlphabet]
       \/ \E n \in 0..MaxWideLen : ct_raw \in [1..n -> WideAlphabet]
    /\ ct_once = <<>>
    /\ ct_twice = <<>>
    /\ caller = "main"
    /\ pc = "idle"
    /\ args = [album_override |-> NoneStr, artist_override |-> NoneStr,
               dry_run |-> FALSE]
    /\ playlist = <<>>
    /\ Fresh

CleanOnce ==
    /\ ct_pc = "raw"
    /\ ct_once' = clean_title(ct_raw)
    /\ ct_pc' = "once"
    /\ UNCHANGED <<ct_raw, ct_twice, run_vars>>

CleanTwice ==
    /\ ct_pc = "once"
    /\ ct_twice' = clean_title(ct_once)
    /\ ct_pc' = "twice"
    /\ UNCHANGED <<ct_raw, ct_once, run_vars>>

NextTitle == CleanOnce \/ CleanTwice

SpecTitle == InitTitle /\ [][NextTitle]_vars

\* C6: clean_title is idempotent, clean_title(clean_title(x)) = clean_title(x)
C6_Idempotent == ct_pc = "twice" => ct_twice = ct_once

====
